---- MODULE Spec2Model ----
(***************************************************************************)
(* Model of scripts/make-index.py: main() regenerates docs/index.html and  *)
(* docs/index.json for the nightly builds.  One run of main() is a linear  *)
(* procedure; its remote requests (GitHub REST API) are answered by the    *)
(* environment, so every request is one step of the model.                 *)
(*                                                                         *)
(* Encoding of strings:                                                    *)
(*   pkgver  "<date>-<suffix>"  is the number 10*date + suffix; 0 is an    *)
(*           absent or empty --pkgver; a date part of 0 does not parse.    *)
(*   commit  a positive number; 0 is an absent or empty flag / None.       *)
(*   x[:8]   drops the trailing digit (x \div 10).                         *)
(*   builder "ghcr.io/<img>@sha256:<digest>" is [img, digest]; digest 0 is *)
(*           a reference without '@'; img "" with digest 0 is an absent    *)
(*           flag.                                                         *)
(***************************************************************************)
EXTENDS Integers, Sequences, FiniteSets, TLC

VARIABLES
    pc,                \* position of the run inside main()
    err,               \* the exception that ended the run ("" if none)
    runs,              \* number of runs started; also the clock datetime.now()
    args,              \* parsed command line of the current run
    token,             \* whether GITHUB_TOKEN is set for the current run
    jsonFile,          \* docs/index.json
    htmlFile,          \* docs/index.html
    releases,          \* remote: pkgvers whose release windows-<pkgver> exists
    json0,             \* index.json as it was when the current run started
    html0,             \* index.html as it was when the current run started
    releases0,         \* the remote releases when the current run started
    records,           \* main(): records
    i,                 \* main(): index of the prune loop's current record
    release,           \* main(): release["id"] of the last lookup (0: none)
    cidx,              \* main(): index of the current container in CONTAINERS
    container_images,  \* main(): container_images
    rows,              \* main(): rows
    log,               \* requests and file writes of the current run, in order
    prev               \* summary of the previous run

vars == <<pc, err, runs, args, token, jsonFile, htmlFile, releases, json0, html0,
          releases0, records, i, release, cidx, container_images,
          rows, log, prev>>

-----------------------------------------------------------------------------
(* Program constants *)

RETAIN == 30

CONTAINERS == <<"openslide/linux-builder", "openslide/winbuild-builder">>

(* Bounds of the model *)

MaxRuns == 2          \* runs of main() in one behaviour
MaxLoaded == 32       \* longest index.json the first run finds

-----------------------------------------------------------------------------
(* Python list slicing *)

\* s[:-k]
SliceButLast(s, k) ==
    IF k = 0 THEN <<>>
    ELSE IF Len(s) <= k THEN <<>>
    ELSE SubSeq(s, 1, Len(s) - k)

\* s[-k:] keeping one entry too many
SliceLastOffByOne(s, k) ==
    IF Len(s) <= k + 1 THEN s ELSE SubSeq(s, Len(s) - k, Len(s))

\* s[:k] instead of s[-k:]: keeps the oldest entries
SliceLastKeepsFront(s, k) ==
    IF Len(s) <= k THEN s ELSE SubSeq(s, 1, k)

\* s[-k:]
SliceLast(s, k) ==
    IF k = 0 THEN s
    ELSE IF Len(s) <= k THEN s
    ELSE SubSeq(s, Len(s) - k + 1, Len(s))

\* x[:8]
Short(x) == x \div 10

-----------------------------------------------------------------------------
(* Values *)

NoRef == [img |-> "", digest |-> 0]
LinuxRef(d) == [img |-> CONTAINERS[1], digest |-> d]
WindowsRef(d) == [img |-> CONTAINERS[2], digest |-> d]
BadRef == [img |-> "linux-builder:latest", digest |-> 0]

\* pkgver.split('-')[0]
DatePart(pkgver) == pkgver \div 10

\* dateutil.parser.parse(...) raises on a string that is no date
DateParses(pkgver) == DatePart(pkgver) > 0

\* the record a past run appended for build number n
OldRecord(n) ==
    [pkgver |-> 10 * n, date |-> n,
     linux_builder |-> LinuxRef(15), windows_builder |-> WindowsRef(25),
     openslide |-> 100 + 10 * (n \div 2) + 1, java |-> 201,
     winbuild |-> 300 + 10 * (n \div 3) + 1,
     win32 |-> n <= 1]

OldRecords(n) == [k \in 1..n |-> OldRecord(k)]

NoFile == [exists |-> FALSE, builds |-> <<>>, last_update |-> 0]

PriorHtml == [state |-> "prior", retain |-> 0, body |-> <<>>]

NewVer == 10 * (MaxLoaded + 10) + 1
DupVer == OldRecord(1).pkgver
BadVer == 10 * 0 + 7

NoArgs ==
    [pkgver |-> 0, linux_builder |-> NoRef, windows_builder |-> NoRef,
     openslide |-> 0, java |-> 0, winbuild |-> 0]

FullArgs(v) ==
    [pkgver |-> v, linux_builder |-> LinuxRef(25), windows_builder |-> WindowsRef(25),
     openslide |-> 171, java |-> 201, winbuild |-> 371]

Blank(a, f) ==
    IF f \in {"linux_builder", "windows_builder"} THEN [a EXCEPT ![f] = NoRef]
    ELSE [a EXCEPT ![f] = 0]

OtherFlags == {"linux_builder", "windows_builder", "openslide", "java", "winbuild"}

\* the command lines the runs are given
ArgSets ==
    {NoArgs, [FullArgs(NewVer) EXCEPT !.pkgver = 0],
     FullArgs(NewVer), FullArgs(DupVer), FullArgs(BadVer),
     [FullArgs(NewVer) EXCEPT !.linux_builder = BadRef]}
    \cup {Blank(FullArgs(NewVer), f) : f \in OtherFlags}

\* the lengths of the index.json the first run finds
LoadedLens == {0, 1} \cup ((RETAIN - 2)..MaxLoaded)

\* the environments the runs are given: a command line, and whether
\* GITHUB_TOKEN is set
RunInputs ==
    (ArgSets \X {TRUE}) \cup ({NoArgs, FullArgs(NewVer)} \X {FALSE})

NoPrev == [partial |-> FALSE, args |-> NoArgs, deleted |-> {}, images |-> {}]

\* release["id"] of the release tagged windows-<pkgver>
ReleaseId(pkgver) == 1000 + pkgver

\* the answers of GET .../versions?per_page=100
ImageLists == {<<>>, <<[name |-> 25, html_url |-> 725]>>}

-----------------------------------------------------------------------------
(* The log of the current run *)

Entry(op, idx, tag, id, status) ==
    [op |-> op, idx |-> idx, tag |-> tag, id |-> id, status |-> status]

IsRequest(e) == e.op \in {"GET_RELEASE", "DELETE", "GET_VERSIONS"}
IsWrite(e) == e.op \in {"WRITE_HTML", "WRITE_JSON"}

\* requests.Response.raise_for_status() raises for 4xx and 5xx
RaisesForStatus(status) == status >= 400

DeletedIn(l) ==
    {l[k].tag : k \in {j \in 1..Len(l) : l[j].op = "DELETE" /\ ~RaisesForStatus(l[j].status)}}

-----------------------------------------------------------------------------
(* Initial state: the website directory and the remote before the first run *)

Init ==
    /\ pc = "idle"
    /\ err = ""
    /\ runs = 0
    /\ args = NoArgs
    /\ token = TRUE
    /\ \E n \in LoadedLens :
        /\ jsonFile \in {[exists |-> TRUE, builds |-> OldRecords(n), last_update |-> 0]}
                        \cup (IF n = 0 THEN {NoFile} ELSE {})
        /\ releases = {OldRecord(k).pkgver : k \in 1..n} \cup {NewVer, DupVer}
    /\ htmlFile = PriorHtml
    /\ json0 = jsonFile
    /\ html0 = htmlFile
    /\ releases0 = releases
    /\ records = <<>>
    /\ i = 1
    /\ release = 0
    /\ cidx = 1
    /\ container_images = {}
    /\ rows = <<>>
    /\ log = <<>>
    /\ prev = NoPrev

-----------------------------------------------------------------------------
(* main() *)

Abort(e) ==
    /\ pc' = "aborted"
    /\ err' = e

\* lines 152-171: parse the command line, read GITHUB_TOKEN
Start(a, t) ==
    /\ pc \in {"idle", "done", "aborted"}
    /\ runs < MaxRuns
    /\ runs' = runs + 1
    /\ args' = a
    /\ token' = t
    /\ json0' = jsonFile
    /\ html0' = htmlFile
    /\ releases0' = releases
    /\ records' = <<>>
    /\ i' = 1
    /\ release' = 0
    /\ cidx' = 1
    /\ container_images' = {}
    /\ rows' = <<>>
    /\ log' = <<>>
    /\ prev' = IF pc = "aborted" /\ err = "HTTPError" /\ DeletedIn(log) # {}
               THEN [partial |-> TRUE, args |-> args, deleted |-> DeletedIn(log),
                     images |-> {}]
               ELSE IF pc = "done"
               THEN [NoPrev EXCEPT !.images = container_images]
               ELSE NoPrev
    /\ IF t THEN pc' = "load" /\ err' = "" ELSE Abort("KeyError")
    /\ UNCHANGED <<jsonFile, htmlFile, releases>>

\* lines 174-178 without the except clause
LoadRecordsNoExcept ==
    /\ pc = "load"
    /\ IF jsonFile.exists
       THEN records' = jsonFile.builds /\ pc' = "append" /\ err' = err
       ELSE records' = records /\ Abort("IOError")
    /\ UNCHANGED <<runs, args, token, jsonFile, htmlFile, releases, json0, html0,
                   releases0, i, release, cidx, container_images, rows, log, prev>>

\* lines 174-178
LoadRecords ==
    /\ pc = "load"
    /\ records' = IF jsonFile.exists THEN jsonFile.builds ELSE <<>>
    /\ pc' = "append"
    /\ UNCHANGED <<err, runs, args, token, jsonFile, htmlFile, releases, json0, html0,
                   releases0, i, release, cidx, container_images, rows, log, prev>>

\* lines 182-185 forgetting --winbuild
IncompleteNoWinbuild(a) ==
    \/ a.linux_builder = NoRef
    \/ a.windows_builder = NoRef
    \/ a.openslide = 0
    \/ a.java = 0

\* lines 182-185
Incomplete(a) ==
    \/ a.linux_builder = NoRef
    \/ a.windows_builder = NoRef
    \/ a.openslide = 0
    \/ a.java = 0
    \/ a.winbuild = 0

\* lines 187-196
NewRecord(a) ==
    [pkgver |-> a.pkgver, date |-> DatePart(a.pkgver),
     linux_builder |-> a.linux_builder, windows_builder |-> a.windows_builder,
     openslide |-> a.openslide, java |-> a.java, winbuild |-> a.winbuild,
     win32 |-> FALSE]

\* lines 181-196
BuildRecord ==
    /\ pc = "append"
    /\ IF args.pkgver # 0
       THEN IF Incomplete(args)
            THEN records' = records /\ Abort("SystemExit")
            ELSE IF ~DateParses(args.pkgver)
            THEN records' = records /\ Abort("ValueError")
            ELSE /\ records' = Append(records, NewRecord(args))
                 /\ pc' = "prune"
                 /\ err' = err
       ELSE records' = records /\ pc' = "prune" /\ err' = err
    /\ UNCHANGED <<runs, args, token, jsonFile, htmlFile, releases, json0, html0,
                   releases0, i, release, cidx, container_images, rows, log, prev>>

\* line 203: the list the prune loop iterates
Expired == SliceButLast(records, RETAIN)

\* the remote's answers to GET /repos/openslide/builds/releases/tags/windows-<pkgver>
LookupAnswers(pkgver) == (IF pkgver \in releases THEN {200} ELSE {404}) \cup {500}

\* the remote's answers to DELETE /repos/openslide/builds/releases/<id>
DeleteAnswers == {204, 500}

\* lines 203-213 with every answer but 200 treated as "already gone"
PruneLookupSkipsErrors ==
    /\ pc = "prune"
    /\ i <= Len(Expired)
    /\ \E status \in LookupAnswers(Expired[i].pkgver) :
        /\ log' = Append(log, Entry("GET_RELEASE", i, Expired[i].pkgver,
                                    IF status = 200 THEN ReleaseId(Expired[i].pkgver) ELSE 0,
                                    status))
        /\ IF status = 200
           THEN release' = ReleaseId(Expired[i].pkgver) /\ i' = i /\ pc' = "delete"
           ELSE release' = release /\ i' = i + 1 /\ pc' = pc
    /\ UNCHANGED <<err, runs, args, token, jsonFile, htmlFile, releases, json0, html0,
                   releases0, records, cidx, container_images, rows, prev>>

\* lines 203-213 asking again after an error answer
PruneLookupRetries ==
    /\ pc = "prune"
    /\ i <= Len(Expired)
    /\ \E status \in LookupAnswers(Expired[i].pkgver) :
        /\ log' = Append(log, Entry("GET_RELEASE", i, Expired[i].pkgver,
                                    IF status = 200 THEN ReleaseId(Expired[i].pkgver) ELSE 0,
                                    status))
        /\ IF status = 404
           THEN release' = release /\ i' = i + 1 /\ pc' = pc
           ELSE IF RaisesForStatus(status)
           THEN release' = release /\ i' = i /\ pc' = pc
           ELSE release' = ReleaseId(Expired[i].pkgver) /\ i' = i /\ pc' = "delete"
    /\ UNCHANGED <<err, runs, args, token, jsonFile, htmlFile, releases, json0, html0,
                   releases0, records, cidx, container_images, rows, prev>>

\* lines 203-213: look up the release of the loop's current record
PruneLookup ==
    /\ pc = "prune"
    /\ i <= Len(Expired)
    /\ \E status \in LookupAnswers(Expired[i].pkgver) :
        /\ log' = Append(log, Entry("GET_RELEASE", i, Expired[i].pkgver,
                                    IF status = 200 THEN ReleaseId(Expired[i].pkgver) ELSE 0,
                                    status))
        /\ IF status = 404
           THEN release' = release /\ i' = i + 1 /\ pc' = pc /\ err' = err
           ELSE IF RaisesForStatus(status)
           THEN release' = release /\ i' = i /\ Abort("HTTPError")
           ELSE release' = ReleaseId(Expired[i].pkgver) /\ i' = i /\ pc' = "delete" /\ err' = err
    /\ UNCHANGED <<runs, args, token, jsonFile, htmlFile, releases, json0, html0,
                   releases0, records, cidx, container_images, rows, prev>>

\* lines 214-217: delete the release the lookup returned
PruneDelete ==
    /\ pc = "delete"
    /\ \E status \in DeleteAnswers :
        /\ log' = Append(log, Entry("DELETE", i, Expired[i].pkgver, release, status))
        /\ IF RaisesForStatus(status)
           THEN releases' = releases /\ i' = i /\ Abort("HTTPError")
           ELSE /\ releases' = {p \in releases : ReleaseId(p) # release}
                /\ i' = i + 1
                /\ pc' = "prune"
                /\ err' = err
    /\ UNCHANGED <<runs, args, token, jsonFile, htmlFile, json0, html0, releases0,
                   records, release, cidx, container_images, rows, prev>>

\* the end of the loop without line 218
PruneSliceForgotten ==
    /\ pc = "prune"
    /\ i > Len(Expired)
    /\ pc' = "containers"
    /\ UNCHANGED <<err, runs, args, token, jsonFile, htmlFile, releases, json0, html0,
                   releases0, records, i, release, cidx, container_images, rows, log, prev>>

\* line 218, reached when the loop of line 203 is exhausted
PruneSlice ==
    /\ pc = "prune"
    /\ i > Len(Expired)
    /\ records' = SliceLast(records, RETAIN)
    /\ pc' = "containers"
    /\ UNCHANGED <<err, runs, args, token, jsonFile, htmlFile, releases, json0, html0,
                   releases0, i, release, cidx, container_images, rows, log, prev>>

\* lines 229-231: container_images[ref] = image['html_url'] for every image
RECURSIVE AddImages(_, _, _)
AddImages(images, container, list) ==
    IF list = <<>> THEN images
    ELSE LET ref == [img |-> container, digest |-> Head(list).name]
         IN  AddImages({e \in images : e.ref # ref}
                           \cup {[ref |-> ref, url |-> Head(list).html_url]},
                       container, Tail(list))

\* lines 222-231 without the raise_for_status() of line 228
FetchContainerNoRaise ==
    /\ pc = "containers"
    /\ cidx <= Len(CONTAINERS)
    /\ \/ /\ log' = Append(log, Entry("GET_VERSIONS", cidx, 0, 0, 500))
          /\ container_images' = container_images
       \/ \E list \in ImageLists :
          /\ log' = Append(log, Entry("GET_VERSIONS", cidx, 0, 0, 200))
          /\ container_images' = AddImages(container_images, CONTAINERS[cidx], list)
    /\ cidx' = cidx + 1
    /\ pc' = IF cidx = Len(CONTAINERS) THEN "rows" ELSE pc
    /\ UNCHANGED <<err, runs, args, token, jsonFile, htmlFile, releases, json0, html0,
                   releases0, records, i, release, rows, prev>>

\* lines 222-231: one iteration of the loop over CONTAINERS
FetchContainer ==
    /\ pc = "containers"
    /\ cidx <= Len(CONTAINERS)
    /\ \/ /\ log' = Append(log, Entry("GET_VERSIONS", cidx, 0, 0, 500))
          /\ Abort("HTTPError")
          /\ UNCHANGED <<cidx, container_images>>
       \/ \E list \in ImageLists :
          /\ log' = Append(log, Entry("GET_VERSIONS", cidx, 0, 0, 200))
          /\ container_images' = AddImages(container_images, CONTAINERS[cidx], list)
          /\ cidx' = cidx + 1
          /\ pc' = IF cidx = Len(CONTAINERS) THEN "rows" ELSE pc
          /\ err' = err
    /\ UNCHANGED <<runs, args, token, jsonFile, htmlFile, releases, json0, html0,
                   releases0, records, i, release, rows, prev>>

\* lines 237-241: prev(key), 0 standing for None
PrevOf(recs, k, key) ==
    IF k > 1 /\ recs[k][key] # recs[k - 1][key] THEN recs[k - 1][key] ELSE 0

\* lines 242-254
RowOf(recs, k) ==
    [date |-> recs[k].date, pkgver |-> recs[k].pkgver,
     linux_builder |-> recs[k].linux_builder,
     windows_builder |-> recs[k].windows_builder,
     openslide_prev |-> PrevOf(recs, k, "openslide"),
     openslide_cur |-> recs[k].openslide,
     java_prev |-> PrevOf(recs, k, "java"),
     java_cur |-> recs[k].java,
     winbuild_prev |-> PrevOf(recs, k, "winbuild"),
     winbuild_cur |-> recs[k].winbuild,
     win32 |-> recs[k].win32]

\* lines 234-255
GenerateRows ==
    /\ pc = "rows"
    /\ rows' = [k \in 1..Len(records) |-> RowOf(records, k)]
    /\ pc' = "html"
    /\ UNCHANGED <<err, runs, args, token, jsonFile, htmlFile, releases, json0, html0,
                   releases0, records, i, release, cidx, container_images, log, prev>>

\* lines 77-85: the macro revision_link
RevisionLink(repo, prv, cur) ==
    IF prv # 0
    THEN [href |-> <<repo, Short(prv), Short(cur)>>, text |-> Short(cur)]
    ELSE [href |-> <<>>, text |-> Short(cur)]

\* line 88: builder.split('@')[1].split(':')[1][:8] is undefined without '@'
BuilderShortFails(builder) == builder.digest = 0

\* lines 87-96: the macro builder_link
BuilderLink(builder, images) ==
    IF \E e \in images : e.ref = builder
    THEN [href |-> (CHOOSE e \in images : e.ref = builder).url,
          text |-> Short(builder.digest)]
    ELSE [href |-> 0, text |-> Short(builder.digest)]

\* lines 110-145: one table row
RenderRow(row, images) ==
    [date |-> row.date,
     openslide |-> RevisionLink("openslide", row.openslide_prev, row.openslide_cur),
     java |-> RevisionLink("openslide-java", row.java_prev, row.java_cur),
     winbuild |-> RevisionLink("openslide-winbuild", row.winbuild_prev, row.winbuild_cur),
     linux_builder |-> BuilderLink(row.linux_builder, images),
     windows_builder |-> BuilderLink(row.windows_builder, images),
     pkgver |-> row.pkgver,
     win32 |-> row.win32]

RowFails(row) ==
    BuilderShortFails(row.linux_builder) \/ BuilderShortFails(row.windows_builder)

\* line 262: reversed(rows)
Reversed(s) == [k \in 1..Len(s) |-> s[Len(s) - k + 1]]

\* the rows the template emits before one fails
RenderedPrefix(rws) ==
    IF \E k \in 1..Len(rws) : RowFails(rws[k])
    THEN SubSeq(rws, 1, (CHOOSE k \in 1..Len(rws) :
                            /\ RowFails(rws[k])
                            /\ \A j \in 1..(k - 1) : ~RowFails(rws[j])) - 1)
    ELSE rws

\* the page with the time of the run written into it
RenderStamped(rws, images) ==
    LET out == RenderedPrefix(Reversed(rws))
    IN  [state |-> IF Len(out) = Len(rws) THEN "complete" ELSE "partial",
         retain |-> RETAIN + runs,
         body |-> [k \in 1..Len(out) |-> RenderRow(out[k], images)]]

\* lines 37-148, 259-264: the page the template renders
Render(rws, images) ==
    LET out == RenderedPrefix(Reversed(rws))
    IN  [state |-> IF Len(out) = Len(rws) THEN "complete" ELSE "partial",
         retain |-> RETAIN,
         body |-> [k \in 1..Len(out) |-> RenderRow(out[k], images)]]

\* lines 258-264
WriteHTML ==
    /\ pc = "html"
    /\ htmlFile' = Render(rows, container_images)
    /\ log' = Append(log, Entry("WRITE_HTML", 0, 0, 0, 0))
    /\ IF htmlFile'.state = "complete"
       THEN pc' = "json" /\ err' = err
       ELSE Abort("UndefinedError")
    /\ UNCHANGED <<runs, args, token, jsonFile, releases, json0, html0, releases0,
                   records, i, release, cidx, container_images, rows, prev>>

\* lines 267-273
WriteJSON ==
    /\ pc = "json"
    /\ jsonFile' = [exists |-> TRUE, builds |-> records, last_update |-> runs]
    /\ log' = Append(log, Entry("WRITE_JSON", 0, 0, 0, 0))
    /\ pc' = "done"
    /\ UNCHANGED <<err, runs, args, token, htmlFile, releases, json0, html0, releases0,
                   records, i, release, cidx, container_images, rows, prev>>

-----------------------------------------------------------------------------

Next ==
    \/ \E in \in RunInputs : Start(in[1], in[2])
    \/ LoadRecords
    \/ BuildRecord
    \/ PruneLookup
    \/ PruneDelete
    \/ PruneSlice
    \/ FetchContainer
    \/ GenerateRows
    \/ WriteHTML
    \/ WriteJSON

Spec == Init /\ [][Next]_vars

-----------------------------------------------------------------------------
(* Vocabulary of the properties *)

\* the list the current run loaded
Loaded == IF json0.exists THEN json0.builds ELSE <<>>

\* the loaded list followed by the new record, when --pkgver is given
RunList == IF args.pkgver # 0 THEN Loaded \o <<NewRecord(args)>> ELSE Loaded

Min(a, b) == IF a <= b THEN a ELSE b

\* the positions of RunList outside its last RETAIN entries
Dropped == 1..(Len(RunList) - RETAIN)

InRun == runs >= 1

Ended == pc \in {"done", "aborted"}

ErrorAnswer(e) ==
    /\ IsRequest(e)
    /\ RaisesForStatus(e.status)
    /\ ~(e.op = "GET_RELEASE" /\ e.status = 404)

\* some flag a new build needs is missing or empty
SomeFlagMissing == \E f \in OtherFlags : Blank(args, f) = args

-----------------------------------------------------------------------------
(* Properties *)

\* C1: whenever a run has written index.json, its 'builds' list has at most
\* RETAIN entries, whatever the length of the list that run loaded.
C1_WrittenAtMostRetain ==
    jsonFile.last_update > 0 => Len(jsonFile.builds) <= RETAIN

C1_Witness ==
    /\ pc = "done"
    /\ Len(Loaded) > RETAIN
    /\ Len(jsonFile.builds) = RETAIN

\* C2: a completed run writes the last min(n, RETAIN) entries of the loaded
\* list followed by the new record, in their order, the new record last.
C2_WritesNewest ==
    pc = "done" =>
        LET n == Len(RunList)
            m == Min(n, RETAIN)
        IN  /\ Len(jsonFile.builds) = m
            /\ \A k \in 1..m : jsonFile.builds[k] = RunList[n - m + k]
            /\ args.pkgver # 0 => jsonFile.builds[m] = NewRecord(args)

C2_Witness ==
    /\ pc = "done"
    /\ args.pkgver # 0
    /\ Len(RunList) = RETAIN + 2
    /\ jsonFile.builds[1] = RunList[3]

\* C3: index.json is written only after every dropped record's lookup was
\* answered 404 or its DELETE succeeded, after both container queries
\* succeeded and after index.html was written; the release requests precede
\* the container queries, and no request follows a file write.
C3_StepOrder ==
    /\ log # <<>> => pc \notin {"load", "append"}
    /\ \A k \in 1..Len(log) :
        /\ log[k].op = "WRITE_JSON" =>
            /\ \E j \in 1..(k - 1) : log[j].op = "WRITE_HTML"
            /\ \A c \in 1..Len(CONTAINERS) :
                \E j \in 1..(k - 1) :
                    /\ log[j].op = "GET_VERSIONS"
                    /\ log[j].idx = c
                    /\ ~RaisesForStatus(log[j].status)
            /\ \A d \in Dropped :
                \E j \in 1..(k - 1) :
                    /\ log[j].idx = d
                    /\ \/ log[j].op = "GET_RELEASE" /\ log[j].status = 404
                       \/ log[j].op = "DELETE" /\ ~RaisesForStatus(log[j].status)
        /\ log[k].op = "GET_VERSIONS" =>
            \A j \in (k + 1)..Len(log) : log[j].op \notin {"GET_RELEASE", "DELETE"}
        /\ IsWrite(log[k]) =>
            \A j \in (k + 1)..Len(log) : ~IsRequest(log[j])
        /\ log[k].op = "WRITE_JSON" => k = Len(log)

C3_Witness ==
    /\ pc = "done"
    /\ Len(RunList) = RETAIN + 2
    /\ \E j \in 1..Len(log) : log[j].op = "GET_RELEASE" /\ log[j].status = 404
    /\ \E j \in 1..Len(log) : log[j].op = "DELETE"
    /\ log[Len(log)].op = "WRITE_JSON"

\* C4: a request answered with an error status (a lookup: other than 404) is
\* the last request of the run; the run is aborted, both files are as they
\* were before the run, and the deletions already made stay made.
C4_RemoteErrorAborts ==
    \A k \in 1..Len(log) :
        ErrorAnswer(log[k]) =>
            /\ k = Len(log)
            /\ pc = "aborted"
            /\ err = "HTTPError"
            /\ htmlFile = html0
            /\ jsonFile = json0
            /\ releases = releases0 \ DeletedIn(log)

C4_Witness ==
    /\ pc = "aborted"
    /\ log # <<>>
    /\ ErrorAnswer(log[Len(log)])
    /\ log[Len(log)].op = "DELETE"
    /\ DeletedIn(log) # {}

\* C5: a run that finds no index.json goes on with an empty list: loading
\* raises nothing, no release is looked up or deleted, and a completed run
\* writes the empty list without --pkgver and exactly the new record with it.
C5_MissingJsonIsEmpty ==
    (InRun /\ token /\ ~json0.exists /\ pc # "load") =>
        /\ err # "IOError"
        /\ pc = "append" => records = <<>>
        /\ \A k \in 1..Len(log) : log[k].op \notin {"GET_RELEASE", "DELETE"}
        /\ pc = "done" =>
            jsonFile.builds = IF args.pkgver = 0 THEN <<>> ELSE <<NewRecord(args)>>

C5_Witness ==
    /\ pc = "done"
    /\ ~json0.exists
    /\ args.pkgver # 0
    /\ Len(jsonFile.builds) = 1

\* the previous run completed, and the current run rendered the record list
\* that run rendered
SameListRenderedTwice ==
    /\ pc = "done"
    /\ runs >= 2
    /\ json0.last_update = runs - 1
    /\ records = json0.builds

C7_NeverAboveRetain ==
    (InRun /\ Len(Loaded) <= RETAIN) => Len(records) <= RETAIN

\* C7, amended: when the loaded list has at most RETAIN entries, 'records'
\* has at most RETAIN + 1 entries in every state of the run, and at most
\* RETAIN from the truncation after the prune loop to the final write.
C7_AboveRetainOnlyWhilePruning ==
    (InRun /\ Len(Loaded) <= RETAIN) =>
        /\ Len(records) <= RETAIN + 1
        /\ pc \in {"containers", "rows", "html", "json", "done"} =>
            Len(records) <= RETAIN

C7_Witness ==
    /\ pc = "delete"
    /\ Len(Loaded) = RETAIN
    /\ Len(records) = RETAIN + 1

C9_NewBuildCompletelySpecified ==
    /\ (InRun /\ args.pkgver # 0 /\ SomeFlagMissing /\ pc \notin {"load", "append"}) =>
        /\ pc = "aborted"
        /\ err \in {"SystemExit", "KeyError"}
        /\ log = <<>>
        /\ htmlFile = html0
        /\ jsonFile = json0
        /\ releases = releases0
    /\ (InRun /\ args.pkgver = 0 /\ pc \in {"prune", "delete"}) => records = Loaded
    /\ (InRun /\ args.pkgver = 0 /\ pc = "done") =>
        jsonFile.builds = SubSeq(Loaded, Len(Loaded) - Min(Len(Loaded), RETAIN) + 1,
                                 Len(Loaded))

C9_Witness ==
    /\ pc = "aborted"
    /\ err = "SystemExit"
    /\ args.pkgver # 0
    /\ args.winbuild = 0
    /\ Loaded # <<>>

\* C10: a run that follows a run aborted after some deletions, on the same
\* index.json with the same arguments, with every request answered 404 or
\* success, gets 404 for the releases already deleted, deletes only releases
\* that still exist, completes, and writes an index.json that lists no record
\* whose release either run deleted.
C10_PruningResumes ==
    (/\ Ended
     /\ prev.partial
     /\ prev.args = args
     /\ token
     /\ \A k \in 1..Len(RunList) :
            ~BuilderShortFails(RunList[k].linux_builder)
            /\ ~BuilderShortFails(RunList[k].windows_builder)
     /\ \A k \in 1..Len(log) : ~ErrorAnswer(log[k]))
    =>
        /\ pc = "done"
        /\ \A k \in 1..Len(log) :
            /\ (log[k].op = "GET_RELEASE" /\ log[k].tag \in prev.deleted) =>
                log[k].status = 404
            /\ log[k].op = "DELETE" => log[k].tag \in releases0
        /\ \A k \in 1..Len(jsonFile.builds) :
            jsonFile.builds[k].pkgver \notin (prev.deleted \cup DeletedIn(log))

====
